---- MODULE Spec2Model ----
(***************************************************************************)
(* Authentication core of the contacts REST backend: password hashing,     *)
(* JWT issue/validation for access and email-confirmation tokens, the      *)
(* token-to-user resolution and the four auth endpoints (register, login,  *)
(* confirmed_email, request_email) over the user store, the Redis session  *)
(* cache and the background mail tasks.                                    *)
(*                                                                         *)
(* A handler is a coroutine: it runs until it awaits the store or the      *)
(* cache, and the event loop serves other requests, background tasks and   *)
(* the clock before it resumes. Every action below is one such stretch of  *)
(* a handler, from one await being served to the next one being issued.    *)
(*                                                                         *)
(* Time is the whole-second clock that python-jose reads                   *)
(* (timegm(utcnow().utctimetuple())): for an integer number of seconds k,  *)
(* floor(t + k) = floor(t) + k, so the "exp" claim written at issue and    *)
(* the comparison made at decode are exact on this clock. A call that      *)
(* reads the clock twice (create_email_token, for "exp" and then for       *)
(* "iat") may see it advance between the two readings.                     *)
(***************************************************************************)
EXTENDS Integers, Sequences, FiniteSets, TLC

VARIABLES users, now, cache, tasks, held, resp, inflight

vars == <<users, now, cache, tasks, held, resp, inflight>>

(* ------------------------------ bounds -------------------------------- *)
MaxTicks == 1
MaxTokenTicks == 2
MaxTasks == 1
(* Seconds the clock may gain between the two readings of one call. *)
MaxDrift == 1

Usernames == {"alice", "a@x.com"}
Emails == {"a@x.com", "b@x.com"}
(* Seventy-two bytes, and two passwords that differ only after them. *)
Bytes72 ==
  "0123456789abcdef0123456789abcdef0123456789abcdef0123456789abcdef01234567"
Passwords == {"pw1", Bytes72 \o "x", Bytes72 \o "y"}
Salts == {"s1"}

(* ----------------------------- settings ------------------------------- *)
JWT_SECRET == "JWT_SECRET"
JWT_ALGORITHM == "HS256"
JWT_EXPIRATION_SECONDS == 3600
EMAIL_TOKEN_DAYS == 7
CACHE_TTL == 3600

(* Python's None, as a value of its own. *)
None == [none |-> TRUE]
(* JSON null inside a claim set (claims are strings in this model). *)
Null == "<null>"
(* Optional[int]: <<>> is None, <<n>> is the integer n. *)
NoDelta == <<>>
Truthy(opt) == opt # <<>> /\ opt[1] # 0

(* Mutant: the update that forgets the dictionary it was given. *)
Update_kv_only(d, kv) == kv

(* dict.copy() followed by dict.update(kv) *)
Update(d, kv) ==
  [k \in DOMAIN d \cup DOMAIN kv |-> IF k \in DOMAIN kv THEN kv[k] ELSE d[k]]

(* ------------------------------- Hash --------------------------------- *)
(* bcrypt: the hash carries its salt, the digest is a one-way image of    *)
(* (salt, key), where the key is the first 72 bytes of the password: the  *)
(* algorithm reads no more, and CryptContext(schemes=["bcrypt"]) hands it *)
(* the password as it is.                                                 *)
BCRYPT_MAX_BYTES == 72

bcrypt_key(secret) ==
  IF Len(secret) > BCRYPT_MAX_BYTES
    THEN SubSeq(secret, 1, BCRYPT_MAX_BYTES)
    ELSE secret

get_password_hash(password, salt) ==
  [scheme |-> "bcrypt", salt |-> salt,
   digest |-> <<salt, bcrypt_key(password)>>]

(* Mutant: a verifier that accepts every password. *)
verify_password_any(plain_password, hashed_password) == TRUE

verify_password(plain_password, hashed_password) ==
  /\ hashed_password.scheme = "bcrypt"
  /\ hashed_password.digest =
       <<hashed_password.salt, bcrypt_key(plain_password)>>

(* ---------------------------- token codec ----------------------------- *)
(* jwt.encode: a compact token is its claim set, the key that signed it   *)
(* and the algorithm named in its header.                                 *)
jwt_encode(claims, key, algorithm) ==
  [fmt |-> "jwt", payload |-> claims, key |-> key, alg |-> algorithm]

(* A string that is not a JWT at all. *)
Garbage == [fmt |-> "garbage", payload |-> <<>>, key |-> "", alg |-> ""]

JWTErr(kind) == [ok |-> FALSE, err |-> kind, payload |-> <<>>]

(* Mutant: a decoder that accepts whatever algorithm the header names. *)
jwt_decode_any_alg(token, key, algorithms, t) ==
  IF token.fmt # "jwt" THEN JWTErr("JWTError")
  ELSE IF token.key # key THEN JWTErr("JWTError")
  ELSE IF "exp" \in DOMAIN token.payload /\ token.payload.exp < t
    THEN JWTErr("ExpiredSignatureError")
  ELSE IF "sub" \in DOMAIN token.payload /\ token.payload.sub = Null
    THEN JWTErr("JWTClaimsError")
  ELSE [ok |-> TRUE, err |-> "", payload |-> token.payload]

(* Mutant: a decoder that refuses a token in its expiry second already. *)
jwt_decode_exp_inclusive(token, key, algorithms, t) ==
  IF token.fmt # "jwt" THEN JWTErr("JWTError")
  ELSE IF token.alg \notin algorithms THEN JWTErr("JWTError")
  ELSE IF token.key # key THEN JWTErr("JWTError")
  ELSE IF "exp" \in DOMAIN token.payload /\ token.payload.exp <= t
    THEN JWTErr("ExpiredSignatureError")
  ELSE IF "sub" \in DOMAIN token.payload /\ token.payload.sub = Null
    THEN JWTErr("JWTClaimsError")
  ELSE [ok |-> TRUE, err |-> "", payload |-> token.payload]

(* Mutant: a decoder that never looks at the expiry claim. *)
jwt_decode_no_exp(token, key, algorithms, t) ==
  IF token.fmt # "jwt" THEN JWTErr("JWTError")
  ELSE IF token.alg \notin algorithms THEN JWTErr("JWTError")
  ELSE IF token.key # key THEN JWTErr("JWTError")
  ELSE IF "sub" \in DOMAIN token.payload /\ token.payload.sub = Null
    THEN JWTErr("JWTClaimsError")
  ELSE [ok |-> TRUE, err |-> "", payload |-> token.payload]

(* jwt.decode(token, key, algorithms) at time t: header and signature     *)
(* first, then the registered claims (exp, sub).                          *)
jwt_decode(token, key, algorithms, t) ==
  IF token.fmt # "jwt" THEN JWTErr("JWTError")
  ELSE IF token.alg \notin algorithms THEN JWTErr("JWTError")
  ELSE IF token.key # key THEN JWTErr("JWTError")
  ELSE IF "exp" \in DOMAIN token.payload /\ token.payload.exp < t
    THEN JWTErr("ExpiredSignatureError")
  ELSE IF "sub" \in DOMAIN token.payload /\ token.payload.sub = Null
    THEN JWTErr("JWTClaimsError")
  ELSE [ok |-> TRUE, err |-> "", payload |-> token.payload]

(* Mutant: an issuer that names a fixed subject, whoever asked. *)
create_access_token_fixed_sub(data, expires_delta, t) ==
  jwt_encode([sub |-> "root", exp |-> t + JWT_EXPIRATION_SECONDS],
             JWT_SECRET, JWT_ALGORITHM)

create_access_token(data, expires_delta, t) ==
  LET expire == IF Truthy(expires_delta)
                  THEN t + expires_delta[1]
                  ELSE t + JWT_EXPIRATION_SECONDS
      to_encode == Update(data, [exp |-> expire])
  IN  jwt_encode(to_encode, JWT_SECRET, JWT_ALGORITHM)

(* The clock is read for the expiry (t) and read again for the issue     *)
(* time (t_iat, the same second or a later one).                          *)
create_email_token(data, t, t_iat) ==
  LET expire == t + EMAIL_TOKEN_DAYS * 86400
      to_encode == Update(data, [iat |-> t_iat, exp |-> expire])
  IN  jwt_encode(to_encode, JWT_SECRET, JWT_ALGORITHM)

(* ---------------------------- responses ------------------------------- *)
HTTPException(status_code, detail) ==
  [status |-> status_code, detail |-> detail, out |-> None]

(* An exception no handler catches: the framework answers 500. *)
Unhandled(exc) == [status |-> 500, detail |-> exc, out |-> None]

Ok(status_code, body) == [status |-> status_code, detail |-> "", out |-> body]

(* ----------------------------- user store ----------------------------- *)
get_user_by_username(db, username) ==
  IF \E i \in DOMAIN db : db[i].username = username
    THEN db[CHOOSE i \in DOMAIN db : db[i].username = username]
    ELSE None

get_user_by_email(db, email) ==
  IF \E i \in DOMAIN db : db[i].email = email
    THEN db[CHOOSE i \in DOMAIN db : db[i].email = email]
    ELSE None

Gravatar(email) == [gravatar |-> email]

(* The avatar the upload service answers with (the URL the tests mock). *)
UploadedAvatar == [uploaded |-> "https://fake-cloudinary-url.com/avatar.jpg"]

(* A row with this email or this username is already stored. *)
Duplicate(db, body) ==
  \E i \in DOMAIN db :
    db[i].email = body.email \/ db[i].username = body.username

create_user(db, body) ==
  Append(db, [id |-> Len(db) + 1,
              username |-> body.username,
              email |-> body.email,
              hashed_password |-> body.password,
              confirmed |-> FALSE,
              avatar |-> Gravatar(body.email)])

(* UserService.update_avatar_url: the row of that email gets the new URL. *)
update_avatar_url(db, email, url) ==
  [i \in DOMAIN db |->
     IF db[i].email = email THEN [db[i] EXCEPT !.avatar = url] ELSE db[i]]

(* Mutant: an update that confirms every user. *)
set_confirmed_all(db, email) ==
  [i \in DOMAIN db |-> [db[i] EXCEPT !.confirmed = TRUE]]

set_confirmed(db, email) ==
  [i \in DOMAIN db |->
     IF db[i].email = email THEN [db[i] EXCEPT !.confirmed = TRUE] ELSE db[i]]

(* ---------------------------- session cache --------------------------- *)
(* Mutant: a SET that is lost. *)
redis_set_dropped(redis, key, value) == redis

(* SET key value: stores the value and discards any time to live. *)
redis_set(redis, key, value) ==
  [k \in DOMAIN redis \cup {key} |->
     IF k = key THEN [value |-> value, ttl |-> <<>>] ELSE redis[k]]

(* Mutant: the expire call left out. *)
redis_expire_skipped(redis, key, seconds, t) == redis

(* EXPIRE key seconds at time t: the key, if present, dies at t + seconds. *)
redis_expire(redis, key, seconds, t) ==
  IF key \in DOMAIN redis
    THEN [redis EXCEPT ![key].ttl = <<t + seconds>>]
    ELSE redis

(* The keys still alive at time t. *)
redis_alive(redis, t) ==
  [k \in {j \in DOMAIN redis : redis[j].ttl = <<>> \/ redis[j].ttl[1] > t}
     |-> redis[k]]

json_dumps(obj) == [json |-> obj]

(* --------------------------- services/auth.py ------------------------- *)
credentials_exception == HTTPException(401, "Could not validate credentials")

(* get_current_user up to its await: the token is decoded and its subject *)
(* read at time t. [ok, username] or the raised response.                 *)
get_current_user_decode(token, t) ==
  LET dec == jwt_decode(token, JWT_SECRET, {JWT_ALGORITHM}, t) IN
  IF ~dec.ok
    THEN [ok |-> FALSE, username |-> "", raised |-> credentials_exception]
  ELSE IF "sub" \notin DOMAIN dec.payload
    THEN [ok |-> FALSE, username |-> "", raised |-> Unhandled("KeyError")]
  ELSE IF dec.payload.sub = Null
    THEN [ok |-> FALSE, username |-> "", raised |-> credentials_exception]
  ELSE [ok |-> TRUE, username |-> dec.payload.sub, raised |-> None]

(* Mutant: the missing-user check left out, an absent user passes as a    *)
(* nameless one.                                                          *)
get_current_user_lookup_unchecked(username, db) ==
  LET user == get_user_by_username(db, username) IN
  IF user = None
    THEN Ok(200, [id |-> 0, username |-> username, email |-> "",
                  hashed_password |-> None, confirmed |-> FALSE,
                  avatar |-> None])
    ELSE Ok(200, user)

(* get_current_user from the moment the store answers the lookup. *)
get_current_user_lookup(username, db) ==
  LET user == get_user_by_username(db, username) IN
  IF user = None THEN credentials_exception
  ELSE Ok(200, user)

(* The whole resolution when the store answers within the same second and *)
(* nothing is written in between.                                         *)
get_current_user(token, db, t) ==
  LET res == get_current_user_decode(token, t) IN
  IF ~res.ok THEN res.raised
  ELSE get_current_user_lookup(res.username, db)

(* [ok, email] or the raised response *)
get_email_from_token(token, t) ==
  LET dec == jwt_decode(token, JWT_SECRET, {JWT_ALGORITHM}, t) IN
  IF ~dec.ok
    THEN [ok |-> FALSE, email |-> "",
          raised |-> HTTPException(422, "Invalid email verification token")]
  ELSE IF "sub" \notin DOMAIN dec.payload
    THEN [ok |-> FALSE, email |-> "", raised |-> Unhandled("KeyError")]
  ELSE [ok |-> TRUE, email |-> dec.payload.sub, raised |-> None]

(* ------------------------------ api/auth.py --------------------------- *)
MailTask(user) == [email |-> user.email, username |-> user.username]

(* register_user when the store answers the lookup by email: the raised   *)
(* response, or None to go on.                                            *)
register_user_email_check(user_data, db) ==
  IF get_user_by_email(db, user_data.email) # None
    THEN HTTPException(409, "User with this email already exists")
    ELSE None

(* Mutant: the username check left out. *)
register_user_username_check_skipped(user_data, db) == None

(* register_user when the store answers the lookup by username. *)
register_user_username_check(user_data, db) ==
  IF get_user_by_username(db, user_data.username) # None
    THEN HTTPException(409, "User with this username already exists")
    ELSE None

(* Mutant: a registration that schedules no mail. *)
register_user_create_no_mail(user_data, salt, db, bg, unique) ==
  LET body == [username |-> user_data.username, email |-> user_data.email,
               password |-> get_password_hash(user_data.password, salt)]
      db2 == create_user(db, body)
  IN  IF unique /\ Duplicate(db, body)
        THEN [resp |-> Unhandled("IntegrityError"), db |-> db, bg |-> bg]
        ELSE [resp |-> Ok(201, db2[Len(db2)]), db |-> db2, bg |-> bg]

(* register_user from the hashing on: the store serves create_user, the   *)
(* confirmation mail is scheduled, the new user is returned. When a row   *)
(* with the same email or username has appeared since the checks, a store *)
(* whose table declares them unique refuses the insert and the exception  *)
(* leaves the handler; a store without the rule adds the row.             *)
register_user_create(user_data, salt, db, bg, unique) ==
  LET body == [username |-> user_data.username, email |-> user_data.email,
               password |-> get_password_hash(user_data.password, salt)]
      db2 == create_user(db, body)
      new_user == db2[Len(db2)]
  IN  IF unique /\ Duplicate(db, body)
        THEN [resp |-> Unhandled("IntegrityError"), db |-> db, bg |-> bg]
        ELSE [resp |-> Ok(201, new_user), db |-> db2,
              bg |-> Append(bg, MailTask(new_user))]

(* Mutant: a login that does not look at the confirmed flag. *)
login_user_begin_unconfirmed_ok(username, password, db, t) ==
  LET user == get_user_by_username(db, username) IN
  IF user = None \/ ~verify_password(password, user.hashed_password)
    THEN [resp |-> HTTPException(401, "Incorrect login or password"),
          key |-> "", value |-> None]
  ELSE LET access_token == create_access_token([sub |-> user.username], NoDelta, t)
           user_data == [id |-> user.id, username |-> user.username,
                         email |-> user.email, confirmed |-> user.confirmed,
                         avatar |-> user.avatar]
       IN  [resp |-> Ok(200, [access_token |-> access_token,
                              token_type |-> "bearer"]),
            key |-> "user:" \o user.username,
            value |-> json_dumps(user_data)]

(* Mutant: a login that writes every session under one key. *)
login_user_begin_single_session(username, password, db, t) ==
  LET user == get_user_by_username(db, username) IN
  IF user = None \/ ~verify_password(password, user.hashed_password)
    THEN [resp |-> HTTPException(401, "Incorrect login or password"),
          key |-> "", value |-> None]
  ELSE IF ~user.confirmed
    THEN [resp |-> HTTPException(401, "Email address not confirmed"),
          key |-> "", value |-> None]
  ELSE LET access_token == create_access_token([sub |-> user.username], NoDelta, t)
           user_data == [id |-> user.id, username |-> user.username,
                         email |-> user.email, confirmed |-> user.confirmed,
                         avatar |-> user.avatar]
       IN  [resp |-> Ok(200, [access_token |-> access_token,
                              token_type |-> "bearer"]),
            key |-> "user:session",
            value |-> json_dumps(user_data)]

(* login_user when the store answers the lookup, at time t, up to its     *)
(* first cache call: the checks, the token and the snapshot it is about   *)
(* to write under the user's key.                                         *)
login_user_begin(username, password, db, t) ==
  LET user == get_user_by_username(db, username) IN
  IF user = None \/ ~verify_password(password, user.hashed_password)
    THEN [resp |-> HTTPException(401, "Incorrect login or password"),
          key |-> "", value |-> None]
  ELSE IF ~user.confirmed
    THEN [resp |-> HTTPException(401, "Email address not confirmed"),
          key |-> "", value |-> None]
  ELSE LET access_token == create_access_token([sub |-> user.username], NoDelta, t)
           user_data == [id |-> user.id, username |-> user.username,
                         email |-> user.email, confirmed |-> user.confirmed,
                         avatar |-> user.avatar]
       IN  [resp |-> Ok(200, [access_token |-> access_token,
                              token_type |-> "bearer"]),
            key |-> "user:" \o user.username,
            value |-> json_dumps(user_data)]

(* Mutant: the already-confirmed check left out. *)
confirmed_email_check_again(email, db) ==
  IF get_user_by_email(db, email) = None
    THEN HTTPException(400, "Verification error")
    ELSE None

(* confirmed_email when the store answers the lookup by email: the raised *)
(* response, or None to go on to the update.                              *)
confirmed_email_check(email, db) ==
  LET user == get_user_by_email(db, email) IN
  IF user = None
    THEN HTTPException(400, "Verification error")
  ELSE IF user.confirmed
    THEN HTTPException(400, "Your email is already confirmed")
  ELSE None

(* Mutant: a resend that mails confirmed users too. *)
request_email_always_sends(email, db, bg) ==
  LET user == get_user_by_email(db, email) IN
  IF user = None
    THEN [resp |-> Unhandled("AttributeError"), bg |-> bg]
  ELSE IF user.confirmed
    THEN [resp |-> Ok(200, [message |-> "Your email is already confirmed"]),
          bg |-> Append(bg, MailTask(user))]
  ELSE [resp |-> Ok(200, [message |-> "Check your email for confirmation"]),
        bg |-> Append(bg, MailTask(user))]

(* request_email when the store answers its one lookup. *)
request_email(email, db, bg) ==
  LET user == get_user_by_email(db, email) IN
  IF user = None
    THEN [resp |-> Unhandled("AttributeError"), bg |-> bg]
  ELSE IF user.confirmed
    THEN [resp |-> Ok(200, [message |-> "Your email is already confirmed"]),
          bg |-> bg]
  ELSE [resp |-> Ok(200, [message |-> "Check your email for confirmation"]),
        bg |-> Append(bg, MailTask(user))]

(* ------------------------------ the system ---------------------------- *)
(* The response on its way out: which operation was asked, with what      *)
(* input, and what it answered. The event loop runs one stretch of one    *)
(* handler at a time; a finished handler's response is handed to the      *)
(* client before the next stretch runs.                                   *)
Reply(op, in, r) ==
  [op |-> op, in |-> in, status |-> r.status, detail |-> r.detail, out |-> r.out]

Idle == [op |-> "idle", in |-> None, status |-> 0, detail |-> "", out |-> None]

(* The client under observation holds at most one issued token, with      *)
(* where it came from, when it was issued and the lifetime asked for: it  *)
(* keeps the one it has or takes the new one.                             *)
Issued(token, src, t, delta) ==
  [tok |-> token, src |-> src, at |-> t, delta |-> delta]

Keep(h, token, src, t) == {h, Issued(token, src, t, NoDelta)}

HeldTokens == IF held = None THEN {} ELSE {held.tok}

(* Claim sets a direct caller of the token service may pass. *)
Subjects == Usernames \cup {Null}
ClaimSets == {<<>>} \cup {[sub |-> s] : s \in Subjects}
Deltas == {NoDelta, <<0>>, <<1>>}

(* Tokens the token service mints right now for a claim set that carries  *)
(* no string subject (a direct call, as the test fixtures make).          *)
Crafted(claimsets) ==
  {create_access_token(d, NoDelta, now) : d \in claimsets}

(* What a client can present to the API: the held token, the held token   *)
(* re-signed with another key, a token without subject, or a string that  *)
(* is no token.                                                           *)
Presentable ==
  HeldTokens
    \cup {[tok EXCEPT !.key = "other-secret"] : tok \in HeldTokens}
    \cup Crafted({<<>>})
    \cup {Garbage}

(* The same, and also the held token under another algorithm and a token  *)
(* whose subject is null.                                                 *)
TokenPresentable ==
  Presentable
    \cup {[tok EXCEPT !.alg = "none"] : tok \in HeldTokens}
    \cup Crafted({[sub |-> Null]})

Week == EMAIL_TOKEN_DAYS * 86400
(* How far the clock may jump: to a lifetime's end in the API runs, and   *)
(* also second by second where the token service is checked on its own.   *)
TickSteps == {JWT_EXPIRATION_SECONDS, Week}
TokenTickSteps == {1, JWT_EXPIRATION_SECONDS, Week}
TicksUsed(t) ==
  (t \div Week) + ((t % Week) \div JWT_EXPIRATION_SECONDS)
    + ((t % Week) % JWT_EXPIRATION_SECONDS)


(* Requests being served. Each is at one of its awaits and carries what   *)
(* the handler holds in its locals; a request that has not arrived, or    *)
(* has been answered, is "idle". The server works on as many requests at  *)
(* a time as there are slots here.                                        *)
Procs == {1, 2}

NotStarted == [pc |-> "idle"]

(* Which protected route a bearer token is presented to. *)
Routes == {"me", "avatar"}

Init ==
  /\ users = <<>>
  /\ now = 0
  /\ cache = <<>>
  /\ tasks = <<>>
  /\ held = None
  /\ resp = Idle
  /\ inflight = [p \in Procs |-> NotStarted]

(* The handler of request p returns or raises: the response goes out. *)
Finish(p, op, in, r) ==
  /\ resp' = Reply(op, in, r)
  /\ inflight' = [inflight EXCEPT ![p] = NotStarted]

(* The handler of request p awaits again, at pc, holding locals. *)
Await(p, locals) ==
  /\ inflight' = [inflight EXCEPT ![p] = locals]
  /\ resp' = resp

(* ---- register_user: lookup by email, lookup by username, creation ---- *)
RegisterCheckEmail(p, username, email, password) ==
  /\ resp = Idle
  /\ inflight[p].pc = "idle"
  /\ LET user_data == [username |-> username, email |-> email,
                       password |-> password]
         r == register_user_email_check(user_data, users)
     IN  IF r # None
           THEN Finish(p, "register", user_data, r)
           ELSE Await(p, [pc |-> "check_username", op |-> "register",
                          in |-> user_data])
  /\ UNCHANGED <<users, now, cache, tasks, held>>

RegisterCheckUsername(p) ==
  /\ resp = Idle
  /\ inflight[p].pc = "check_username"
  /\ LET r == register_user_username_check(inflight[p].in, users) IN
     IF r # None
       THEN Finish(p, "register", inflight[p].in, r)
       ELSE Await(p, [inflight[p] EXCEPT !.pc = "create"])
  /\ UNCHANGED <<users, now, cache, tasks, held>>

(* Whether the users table enforces unique emails and usernames is not    *)
(* decided by the handler: both stores are possible when it matters.      *)
RegisterCreate(p, salt) ==
  /\ resp = Idle
  /\ inflight[p].pc = "create"
  /\ Len(tasks) < MaxTasks
  /\ \E unique \in IF Duplicate(users, inflight[p].in) THEN BOOLEAN ELSE {FALSE} :
       LET r == register_user_create(inflight[p].in, salt, users, tasks, unique)
       IN  /\ users' = r.db
           /\ tasks' = r.bg
           /\ Finish(p, "register", inflight[p].in, r.resp)
  /\ UNCHANGED <<now, cache, held>>

(* ---- login_user: lookup and token, redis.set, redis.expire ---- *)
LoginBegin(p, username, password) ==
  /\ resp = Idle
  /\ inflight[p].pc = "idle"
  /\ LET in == [username |-> username, password |-> password]
         r == login_user_begin(username, password, users, now)
     IN  IF r.resp.status # 200
           THEN Finish(p, "login", in, r.resp)
           ELSE Await(p, [pc |-> "set", op |-> "login", in |-> in,
                          out |-> r.resp.out, key |-> r.key,
                          value |-> r.value])
  /\ UNCHANGED <<users, now, cache, tasks, held>>

LoginSet(p) ==
  /\ resp = Idle
  /\ inflight[p].pc = "set"
  /\ cache' = redis_set(cache, inflight[p].key, inflight[p].value)
  /\ Await(p, [inflight[p] EXCEPT !.pc = "expire"])
  /\ UNCHANGED <<users, now, tasks, held>>

LoginExpire(p) ==
  /\ resp = Idle
  /\ inflight[p].pc = "expire"
  /\ cache' = redis_expire(cache, inflight[p].key, CACHE_TTL, now)
  /\ Finish(p, "login", inflight[p].in, Ok(200, inflight[p].out))
  /\ UNCHANGED <<users, now, tasks, held>>

(* A login that does not get to its expire call: redis.expire raises (the *)
(* connection is lost) or the request is cancelled while it waits; the    *)
(* exception leaves the handler, the key it has set stays as it is.       *)
LoginAbandon(p) ==
  /\ resp = Idle
  /\ inflight[p].pc = "expire"
  /\ Finish(p, "login", inflight[p].in, Unhandled("ConnectionError"))
  /\ UNCHANGED <<users, now, cache, tasks, held>>

(* ---- confirmed_email: decode, lookup by email, update ---- *)
ConfirmDecode(p, token) ==
  /\ resp = Idle
  /\ inflight[p].pc = "idle"
  /\ LET res == get_email_from_token(token, now) IN
     IF ~res.ok
       THEN Finish(p, "confirmed_email", [token |-> token], res.raised)
       ELSE Await(p, [pc |-> "lookup", op |-> "confirmed_email",
                      in |-> [token |-> token], email |-> res.email])
  /\ UNCHANGED <<users, now, cache, tasks, held>>

ConfirmLookup(p) ==
  /\ resp = Idle
  /\ inflight[p].pc = "lookup"
  /\ LET r == confirmed_email_check(inflight[p].email, users) IN
     IF r # None
       THEN Finish(p, "confirmed_email", inflight[p].in, r)
       ELSE Await(p, [inflight[p] EXCEPT !.pc = "update"])
  /\ UNCHANGED <<users, now, cache, tasks, held>>

ConfirmSet(p) ==
  /\ resp = Idle
  /\ inflight[p].pc = "update"
  /\ users' = set_confirmed(users, inflight[p].email)
  /\ Finish(p, "confirmed_email", inflight[p].in,
            Ok(200, [message |-> "Email confirmed"]))
  /\ UNCHANGED <<now, cache, tasks, held>>

(* ---- request_email: one lookup ---- *)
RequestEmail(p, email) ==
  /\ resp = Idle
  /\ inflight[p].pc = "idle"
  /\ Len(tasks) < MaxTasks
  /\ LET r == request_email(email, users, tasks) IN
     /\ tasks' = r.bg
     /\ Finish(p, "request_email", [email |-> email], r.resp)
  /\ UNCHANGED <<users, now, cache, held>>

(* ---- get_current_user, as the dependency of a protected route ---- *)
OpOf(route) == IF route = "avatar" THEN "update_avatar" ELSE "get_current_user"

AuthenticateDecode(p, token, route) ==
  /\ resp = Idle
  /\ inflight[p].pc = "idle"
  /\ LET res == get_current_user_decode(token, now) IN
     IF ~res.ok
       THEN Finish(p, OpOf(route), [token |-> token], res.raised)
       ELSE Await(p, [pc |-> "get_user", op |-> OpOf(route),
                      in |-> [token |-> token], username |-> res.username])
  /\ UNCHANGED <<users, now, cache, tasks, held>>

(* Mutant: a lookup that evicts the session cache. *)
AuthenticateLookup_evicting(p) ==
  /\ resp = Idle
  /\ inflight[p].pc = "get_user"
  /\ Finish(p, inflight[p].op, inflight[p].in,
            get_current_user_lookup(inflight[p].username, users))
  /\ cache' = <<>>
  /\ UNCHANGED <<users, now, tasks, held>>

(* The store answers the lookup: the route gets the user. The profile     *)
(* route returns it; the avatar route goes on to its own store call.      *)
AuthenticateLookup(p) ==
  /\ resp = Idle
  /\ inflight[p].pc = "get_user"
  /\ LET r == get_current_user_lookup(inflight[p].username, users) IN
     IF r.status # 200 \/ inflight[p].op = "get_current_user"
       THEN Finish(p, inflight[p].op, inflight[p].in, r)
       ELSE Await(p, [pc |-> "update_avatar", op |-> inflight[p].op,
                      in |-> inflight[p].in, email |-> r.out.email])
  /\ UNCHANGED <<users, now, cache, tasks, held>>

(* PATCH /users/avatar: the uploaded picture's URL replaces the stored    *)
(* avatar of the authenticated user, who is returned.                     *)
UpdateAvatar(p) ==
  /\ resp = Idle
  /\ inflight[p].pc = "update_avatar"
  /\ users' = update_avatar_url(users, inflight[p].email, UploadedAvatar)
  /\ Finish(p, "update_avatar", inflight[p].in,
            Ok(200, get_user_by_email(users', inflight[p].email)))
  /\ UNCHANGED <<now, cache, tasks, held>>

(* A direct call of the token service, as the test fixtures make. *)
IssueAccessToken(data, expires_delta) ==
  /\ resp = Idle
  /\ resp' = Reply("create_access_token",
                   [data |-> data, expires_delta |-> expires_delta],
                   Ok(0, create_access_token(data, expires_delta, now)))
  /\ UNCHANGED <<users, now, cache, tasks, held, inflight>>

(* create_email_token reads the clock twice, for the expiry and then for *)
(* the issue time: the second reading is d seconds after the first.       *)
(* A direct call of create_email_token; the caller notes when it called.  *)
IssueEmailToken(data, d) ==
  /\ resp = Idle
  /\ now' = now + d
  /\ cache' = redis_alive(cache, now')
  /\ resp' = Reply("create_email_token", [data |-> data],
                   Ok(0, create_email_token(data, now, now')))
  /\ held' = Issued(resp'.out, "direct-email", now, NoDelta)
  /\ UNCHANGED <<users, tasks, inflight>>

(* The response reaches the client, which may keep a token it carries. *)
Deliver ==
  /\ resp # Idle
  /\ resp' = Idle
  /\ held' \in
       IF resp.op = "login" /\ resp.status = 200
         THEN Keep(held, resp.out.access_token, "login", now)
       ELSE IF resp.op = "create_access_token"
         THEN {Issued(resp.out, "direct", now, resp.in.expires_delta)}
       ELSE {held}
  /\ UNCHANGED <<users, now, cache, tasks, inflight>>

(* The background task send_email: builds the confirmation token for the  *)
(* address (the clock read twice, d seconds apart) and mails it; the      *)
(* observed client may or may not keep it.                                *)
SendEmail(i, d) ==
  LET task == tasks[i]
      token == create_email_token([sub |-> task.email], now, now + d)
  IN  /\ resp = Idle
      /\ now' = now + d
      /\ cache' = redis_alive(cache, now')
      /\ tasks' = SubSeq(tasks, 1, i - 1) \o SubSeq(tasks, i + 1, Len(tasks))
      /\ held' \in Keep(held, token, "email", now)
      /\ UNCHANGED <<users, resp, inflight>>

(* The clock moves; it may do so while handlers wait at their awaits. *)
Elapse(d) ==
  /\ resp = Idle
  /\ now' = now + d
  /\ cache' = redis_alive(cache, now')
  /\ UNCHANGED <<users, tasks, held, resp, inflight>>

Tick(d) ==
  /\ TicksUsed(now) < MaxTicks
  /\ Elapse(d)

TokenTick(d) ==
  /\ TicksUsed(now) < MaxTokenTicks
  /\ Elapse(d)

(* The seconds the clock may gain inside one call, within a run that      *)
(* follows the clock for max ticks.                                       *)
Drifts(max) == {d \in 0..MaxDrift : d = 0 \/ TicksUsed(now) + d <= max}

(* What clients send: the body of a register, the form of a login. *)
Body(username, email, password) ==
  [username |-> username, email |-> email, password |-> password]
Form(username, password) == [username |-> username, password |-> password]

(* The API from an empty store. The server works on its requests side by  *)
(* side: a stretch of one handler runs, for a request that arrives or for *)
(* one whose await has been served, whatever the other requests wait for. *)
(* One person registers, confirms and logs in, with the right and with    *)
(* wrong credentials, from several devices at a time.                     *)
Bodies == {Body("alice", "a@x.com", "pw1")}
Forms == {Form(u, pw) : u \in Usernames, pw \in {"pw1", Bytes72 \o "x"}}

Next ==
  \/ \E p \in Procs, b \in Bodies :
       RegisterCheckEmail(p, b.username, b.email, b.password)
  \/ \E p \in Procs : RegisterCheckUsername(p)
  \/ \E p \in Procs, s \in Salts : RegisterCreate(p, s)
  \/ \E p \in Procs, f \in Forms : LoginBegin(p, f.username, f.password)
  \/ \E p \in Procs : LoginSet(p)
  \/ \E p \in Procs : LoginExpire(p)
  \/ \E p \in Procs : LoginAbandon(p)
  \/ \E p \in Procs, token \in Presentable : ConfirmDecode(p, token)
  \/ \E p \in Procs : ConfirmLookup(p)
  \/ \E p \in Procs : ConfirmSet(p)
  \/ \E p \in Procs, e \in Emails : RequestEmail(p, e)
  \/ \E p \in Procs, token \in Presentable, route \in Routes :
       AuthenticateDecode(p, token, route)
  \/ \E p \in Procs : AuthenticateLookup(p)
  \/ \E p \in Procs : UpdateAvatar(p)
  \/ Deliver
  \/ \E i \in DOMAIN tasks, d \in Drifts(MaxTicks) : SendEmail(i, d)
  \/ \E d \in TickSteps : Tick(d)

Spec == Init /\ [][Next]_vars

(* The API beside an account made earlier: a user whose username is the   *)
(* address another person then registers with, who has not confirmed and  *)
(* asks for no mail. The newcomer's password is longer than 72 bytes;     *)
(* a second newcomer asks for the username that is taken.                 *)
EarlierUser ==
  create_user(<<>>, Body("a@x.com", "b@x.com", get_password_hash("pw1", "s1")))

PairInit ==
  /\ users = EarlierUser
  /\ now = 0
  /\ cache = <<>>
  /\ tasks = <<>>
  /\ held = None
  /\ resp = Idle
  /\ inflight = [p \in Procs |-> NotStarted]

PairBodies == {Body("alice", "a@x.com", Bytes72 \o "x"),
               Body("a@x.com", "a@x.com", "pw1")}
PairForms == {Form("alice", Bytes72 \o "x"), Form("alice", Bytes72 \o "y"),
              Form("a@x.com", "pw1")}
PairAddresses == {"a@x.com"}

PairNext ==
  \/ \E p \in Procs, b \in PairBodies :
       RegisterCheckEmail(p, b.username, b.email, b.password)
  \/ \E p \in Procs : RegisterCheckUsername(p)
  \/ \E p \in Procs, s \in Salts : RegisterCreate(p, s)
  \/ \E p \in Procs, f \in PairForms : LoginBegin(p, f.username, f.password)
  \/ \E p \in Procs : LoginSet(p)
  \/ \E p \in Procs : LoginExpire(p)
  \/ \E p \in Procs : LoginAbandon(p)
  \/ \E p \in Procs, token \in HeldTokens : ConfirmDecode(p, token)
  \/ \E p \in Procs : ConfirmLookup(p)
  \/ \E p \in Procs : ConfirmSet(p)
  \/ \E p \in Procs, e \in PairAddresses : RequestEmail(p, e)
  \/ \E p \in Procs, token \in HeldTokens, route \in Routes :
       AuthenticateDecode(p, token, route)
  \/ \E p \in Procs : AuthenticateLookup(p)
  \/ \E p \in Procs : UpdateAvatar(p)
  \/ Deliver
  \/ \E i \in DOMAIN tasks, d \in Drifts(MaxTicks) : SendEmail(i, d)
  \/ \E d \in TickSteps : Tick(d)

PairSpec == PairInit /\ [][PairNext]_vars

(* The token service on its own: direct calls of the two issuers, the     *)
(* clock second by second, and the two validation paths, whose requests   *)
(* are served side by side, over a store that holds one registered user.  *)
(* Access tokens are issued for that user's name, email tokens for its    *)
(* address.                                                               *)
OneUser ==
  create_user(<<>>, [username |-> "alice", email |-> "a@x.com",
                     password |-> get_password_hash("pw1", "s1")])

TokenInit ==
  /\ users = OneUser
  /\ now = 0
  /\ cache = <<>>
  /\ tasks = <<>>
  /\ held = None
  /\ resp = Idle
  /\ inflight = [p \in Procs |-> NotStarted]

AccessClaims == {[sub |-> "alice"]}
EmailClaims == {[sub |-> "a@x.com"]}

TokenNext ==
  \/ \E data \in AccessClaims, delta \in Deltas : IssueAccessToken(data, delta)
  \/ \E data \in EmailClaims, d \in Drifts(MaxTokenTicks) :
       IssueEmailToken(data, d)
  \/ \E p \in Procs, token \in TokenPresentable :
       AuthenticateDecode(p, token, "me")
  \/ \E p \in Procs : AuthenticateLookup(p)
  \/ \E p \in Procs, token \in TokenPresentable : ConfirmDecode(p, token)
  \/ \E p \in Procs : ConfirmLookup(p)
  \/ \E p \in Procs : ConfirmSet(p)
  \/ Deliver
  \/ \E d \in TokenTickSteps : TokenTick(d)

TokenSpec == TokenInit /\ [][TokenNext]_vars

(* ======================= properties of the API ======================== *)
(* The stored users with a given username / email. *)
Named(u) == {users[i] : i \in {j \in DOMAIN users : users[j].username = u}}
WithEmail(e) == {users[i] : i \in {j \in DOMAIN users : users[j].email = e}}

(* The username names this stored user and no other row; likewise the     *)
(* email. Rows that share a username or an email are the subject of C22.  *)
SoleNamed(u, user) == Named(u) = {user}
SoleWithEmail(e, user) == WithEmail(e) = {user}

(* The password verifies against the hash stored for the user. *)
IsPasswordOf(p, user) ==
  \E s \in Salts : user.hashed_password.digest = <<s, bcrypt_key(p)>>

(* A token the configured secret and algorithm verify, not yet expired. *)
SignedAndFresh(token) ==
  /\ token.fmt = "jwt"
  /\ token.key = JWT_SECRET
  /\ token.alg = "HS256"
  /\ "exp" \in DOMAIN token.payload
  /\ now <= token.payload.exp

HasSubject(token) ==
  "sub" \in DOMAIN token.payload /\ token.payload.sub # Null

(* Request p has been answered in this step. *)
Answered(p) == resp = Idle /\ resp' # Idle /\ inflight'[p] = NotStarted

(* Request p waits at pc after this step, no response has gone out. *)
WaitsAt(p, pc) == resp' = Idle /\ inflight'[p].pc = pc

(* C1: a login with the right password for a user that is not confirmed   *)
(* (the one stored user of that name) is answered 401 "email address not  *)
(* confirmed" as soon as the store has answered the lookup, whatever      *)
(* other requests are being served: it carries no token, the request is   *)
(* over, and the session cache is as it was.                              *)
C1_UnconfirmedLoginRejected ==
  [][\A p \in Procs, u \in Usernames, pw \in Passwords :
       (/\ LoginBegin(p, u, pw)
        /\ \E user \in Named(u) :
             SoleNamed(u, user) /\ IsPasswordOf(pw, user) /\ ~user.confirmed)
       => /\ Answered(p)
          /\ resp'.op = "login"
          /\ resp'.status = 401
          /\ resp'.detail = "Email address not confirmed"
          /\ resp'.out = None
          /\ cache' = cache]_vars

C1_Witness ==
  /\ resp.op = "login"
  /\ resp.detail = "Email address not confirmed"
  /\ \E user \in Named(resp.in.username) :
       IsPasswordOf(resp.in.password, user) /\ ~user.confirmed

(* C2: a login for a username no stored user has, or with a password that *)
(* verifies against no stored user of that name, is answered 401          *)
(* "incorrect login or password" in both cases, carries no token, writes  *)
(* nothing to the cache and leaves the user store as it was.              *)
C2_BadCredentialsRejected ==
  [][\A p \in Procs, u \in Usernames, pw \in Passwords :
       (/\ LoginBegin(p, u, pw)
        /\ \A user \in Named(u) : ~IsPasswordOf(pw, user))
       => /\ Answered(p)
          /\ resp'.op = "login"
          /\ resp'.status = 401
          /\ resp'.detail = "Incorrect login or password"
          /\ resp'.out = None
          /\ cache' = cache
          /\ users' = users]_vars

(* The wrong-password case, for a user that is confirmed. *)
C2_Witness ==
  /\ resp.op = "login"
  /\ resp.detail = "Incorrect login or password"
  /\ \E user \in Named(resp.in.username) :
       ~IsPasswordOf(resp.in.password, user) /\ user.confirmed

(* C3: a login of a confirmed user (the one stored user of that name)     *)
(* with the right password builds, when the store answers the lookup, an  *)
(* access token signed by the service whose subject is the username and   *)
(* which expires 3600 s later; when the request completes it answers with *)
(* that token, and if it completes before that token has expired it       *)
(* leaves under user:<username> a snapshot {id, username, email,          *)
(* confirmed, avatar} of that user (with the avatar the user has or had   *)
(* when a login took it), due to expire 3600 seconds after the            *)
(* completion, whatever other logins ran beside it; an entry it leaves    *)
(* at any later completion has that time to live as well.                 *)
C3_LoginIssuesTokenAndCaches ==
  [][/\ \A p \in Procs, u \in Usernames, pw \in Passwords :
          (/\ LoginBegin(p, u, pw)
           /\ \E user \in Named(u) :
                SoleNamed(u, user) /\ IsPasswordOf(pw, user) /\ user.confirmed)
          => /\ WaitsAt(p, "set")
             /\ inflight'[p].out.token_type = "bearer"
             /\ SignedAndFresh(inflight'[p].out.access_token)
             /\ inflight'[p].out.access_token.payload.sub = u
             /\ inflight'[p].out.access_token.payload.exp = now + 3600
     /\ \A p \in Procs :
          LoginExpire(p)
          => LET u == inflight[p].in.username IN
             /\ Answered(p)
             /\ resp'.op = "login"
             /\ resp'.status = 200
             /\ resp'.out = inflight[p].out
             /\ ("user:" \o u) \in DOMAIN cache'
                  => cache'["user:" \o u].ttl = <<now + 3600>>
             /\ now < inflight[p].out.access_token.payload.exp
                  => \E user \in Named(u) :
                       \E avatar \in {user.avatar, Gravatar(user.email)} :
                         /\ ("user:" \o u) \in DOMAIN cache'
                         /\ cache'["user:" \o u].value =
                              [json |-> [id |-> user.id, username |-> u,
                                         email |-> user.email,
                                         confirmed |-> TRUE,
                                         avatar |-> avatar]]
                         /\ cache'["user:" \o u].ttl = <<now + 3600>>]_vars

(* C3, as first stated: every login of a confirmed user with the right    *)
(* password that completes leaves, at its completion, the entry under     *)
(* user:<username> with the snapshot of that user and a time to live of   *)
(* 3600 s, however long the request took. A login held up between its set *)
(* and its expire until the time to live another login of the same user   *)
(* had set ran out finds no key to expire and leaves none.                *)
C3_CompletedLoginAlwaysLeavesEntry ==
  [][\A p \in Procs :
       LoginExpire(p)
       => LET u == inflight[p].in.username IN
          /\ Answered(p)
          /\ resp'.status = 200
          /\ resp'.out = inflight[p].out
          /\ \E user \in Named(u) :
               \E avatar \in {user.avatar, Gravatar(user.email)} :
                 /\ ("user:" \o u) \in DOMAIN cache'
                 /\ cache'["user:" \o u].value =
                      [json |-> [id |-> user.id, username |-> u,
                                 email |-> user.email,
                                 confirmed |-> TRUE,
                                 avatar |-> avatar]]
                 /\ cache'["user:" \o u].ttl = <<now + 3600>>]_vars

(* A login completed within its token's lifetime, beside another login   *)
(* of the same user that is still under way.                              *)
C3_Witness ==
  /\ resp.op = "login"
  /\ resp.status = 200
  /\ resp.out.access_token.payload.sub = resp.in.username
  /\ now < resp.out.access_token.payload.exp
  /\ ("user:" \o resp.in.username) \in DOMAIN cache
  /\ cache["user:" \o resp.in.username].ttl = <<now + 3600>>
  /\ \E q \in Procs : /\ inflight[q].pc \in {"set", "expire"}
                       /\ inflight[q].in.username = resp.in.username

(* C4: a confirm whose token resolves, when the store answers the lookup  *)
(* with an unconfirmed user (the one stored user of that email), goes on  *)
(* to set that user's flag and acknowledges; once a user is confirmed it  *)
(* stays so, and every confirm that then looks its email up, with the     *)
(* same or with a newer token, is answered 400 "already confirmed" and    *)
(* changes no user.                                                       *)
C4_ConfirmOnceThenAlreadyConfirmed ==
  [][/\ \A p \in Procs, token \in Presentable :
          (/\ ConfirmDecode(p, token)
           /\ SignedAndFresh(token) /\ HasSubject(token))
          => /\ WaitsAt(p, "lookup")
             /\ inflight'[p].email = token.payload.sub
             /\ users' = users
     /\ \A p \in Procs :
          ConfirmLookup(p)
          => \A user \in WithEmail(inflight[p].email) :
               SoleWithEmail(inflight[p].email, user)
               => /\ users' = users
                  /\ IF user.confirmed
                       THEN /\ Answered(p)
                            /\ resp'.op = "confirmed_email"
                            /\ resp'.status = 400
                            /\ resp'.detail = "Your email is already confirmed"
                       ELSE WaitsAt(p, "update")
     /\ \A p \in Procs :
          ConfirmSet(p)
          => /\ Answered(p)
             /\ resp'.op = "confirmed_email"
             /\ resp'.status = 200
             /\ resp'.out = [message |-> "Email confirmed"]
             /\ users' = [i \in DOMAIN users |->
                            IF users[i].email = inflight[p].email
                              THEN [users[i] EXCEPT !.confirmed = TRUE]
                              ELSE users[i]]
     /\ \A i \in DOMAIN users :
          users[i].confirmed
            => /\ i \in DOMAIN users'
               /\ users'[i].confirmed
               /\ users'[i].email = users[i].email]_vars

(* A confirmation with an issued email token of a confirmed user was      *)
(* refused.                                                               *)
C4_Witness ==
  /\ resp.op = "confirmed_email"
  /\ resp.detail = "Your email is already confirmed"
  /\ held # None
  /\ held.src = "email"
  /\ resp.in.token = held.tok
  /\ \E user \in WithEmail(held.tok.payload.sub) : user.confirmed

(* C5: get_current_user refuses with 401 "could not validate credentials" *)
(* a token that does not verify or is expired when it is decoded; for a   *)
(* validly signed, unexpired token it looks the subject up, and answers   *)
(* with the user of that username when the store has one and with the     *)
(* same 401 when it has none.                                             *)
C5_AuthenticateResolvesOrRejects ==
  [][/\ \A p \in Procs, token \in Presentable, route \in Routes :
          AuthenticateDecode(p, token, route)
          => /\ (SignedAndFresh(token) /\ HasSubject(token))
                  => /\ WaitsAt(p, "get_user")
                     /\ inflight'[p].username = token.payload.sub
             /\ ~SignedAndFresh(token)
                  => /\ Answered(p)
                     /\ resp'.status = 401
                     /\ resp'.detail = "Could not validate credentials"
                     /\ resp'.out = None
     /\ \A p \in Procs :
          AuthenticateLookup(p)
          => IF Named(inflight[p].username) = {}
               THEN /\ Answered(p)
                    /\ resp'.status = 401
                    /\ resp'.detail = "Could not validate credentials"
                    /\ resp'.out = None
               ELSE inflight[p].op = "get_current_user"
                    => /\ Answered(p)
                       /\ resp'.op = "get_current_user"
                       /\ resp'.status = 200
                       /\ resp'.out \in Named(inflight[p].username)]_vars

(* A session token issued by login was resolved to its user. *)
C5_Witness ==
  /\ resp.op = "get_current_user"
  /\ resp.status = 200
  /\ held # None
  /\ held.src = "login"
  /\ resp.in.token = held.tok
  /\ resp.out.username = held.tok.payload.sub

(* C6: a token issued for one purpose is refused on the other path: an   *)
(* email token issued by send_email is never accepted by get_current_user *)
(* as a session, and an access token issued by login never makes          *)
(* confirmed_email confirm a user.                                        *)
C6_NoCrossPurposeUse ==
  /\ (/\ resp.op = "get_current_user"
      /\ held # None
      /\ held.src = "email"
      /\ resp.in.token = held.tok)
     => resp.status # 200
  /\ (/\ resp.op = "confirmed_email"
      /\ held # None
      /\ held.src = "login"
      /\ resp.in.token = held.tok)
     => resp.status # 200

(* C7: get_current_user answers 401 "could not validate credentials",     *)
(* and nothing else, when the token does not decode and when it decodes   *)
(* but carries no subject claim.                                          *)
C7_NoSubjectIsInvalidToken ==
  [][\A p \in Procs, token \in Presentable :
       (/\ AuthenticateDecode(p, token, "me")
        /\ \/ ~SignedAndFresh(token)
           \/ "sub" \notin DOMAIN token.payload)
       => /\ Answered(p)
          /\ resp'.status = 401
          /\ resp'.detail = "Could not validate credentials"]_vars

(* C8: every failure to resolve the token in confirmed_email (signature,  *)
(* malformed claims, expiry, missing subject) is answered 422 and leaves  *)
(* every user as it was.                                                  *)
C8_UnresolvableEmailTokenIs422 ==
  [][\A p \in Procs, token \in Presentable :
       (/\ ConfirmDecode(p, token)
        /\ ~(SignedAndFresh(token) /\ HasSubject(token)))
       => /\ Answered(p)
          /\ resp'.status = 422
          /\ resp'.detail = "Invalid email verification token"
          /\ users' = users]_vars

(* C24: request_email for the address of a stored user (the one stored   *)
(* user of that email) answers 200 and changes no user; if the user is    *)
(* not confirmed it schedules exactly one mail, to that user's email and  *)
(* username; if the user is confirmed it schedules none and says the      *)
(* email is already confirmed.                                            *)
C24_ResendSchedulesOneMailOrNone ==
  [][\A p \in Procs, e \in Emails :
       \A user \in WithEmail(e) :
         (RequestEmail(p, e) /\ SoleWithEmail(e, user))
         => /\ Answered(p)
            /\ resp'.op = "request_email"
            /\ resp'.status = 200
            /\ users' = users
            /\ IF user.confirmed
                 THEN /\ resp'.out =
                           [message |-> "Your email is already confirmed"]
                      /\ tasks' = tasks
                 ELSE /\ resp'.out =
                           [message |-> "Check your email for confirmation"]
                      /\ tasks' = Append(tasks, [email |-> user.email,
                                                 username |-> user.username])]_vars

(* A resend for a confirmed user, with nothing scheduled. *)
C24_Witness ==
  /\ resp.op = "request_email"
  /\ resp.out = [message |-> "Your email is already confirmed"]
  /\ tasks = <<>>
  /\ \E user \in WithEmail(resp.in.email) : user.confirmed

(* C25: an access token issued by login names a user that is stored and   *)
(* confirmed, from the moment it is built, through the cache calls of the *)
(* login and its response, and in every state after it.                   *)
C25_LoginTokensNameConfirmedUsers ==
  /\ \A p \in Procs :
       (inflight[p].pc \in {"set", "expire"})
       => \E user \in Named(inflight[p].out.access_token.payload.sub) :
            user.confirmed
  /\ (resp.op = "login" /\ resp.status = 200)
       => \E user \in Named(resp.out.access_token.payload.sub) :
            user.confirmed
  /\ (held # None /\ held.src = "login")
       => \E user \in Named(held.tok.payload.sub) : user.confirmed

(* A token kept from a login, an hour on, beside a second user that is    *)
(* not confirmed.                                                         *)
C25_Witness ==
  /\ held # None
  /\ held.src = "login"
  /\ now > held.at
  /\ Len(users) = 2
  /\ \E i \in DOMAIN users : ~users[i].confirmed

(* C26: the confirmed flag only ever goes from false to true, a user is   *)
(* stored unconfirmed, and the one step that sets the flag of a user is   *)
(* the update of a confirmed_email, answered 200, whose token is signed   *)
(* by the service, has that user's email as subject and was unexpired     *)
(* when the handler decoded it; that step leaves the flag of every user   *)
(* with another email as it was.                                          *)
C26_ConfirmedFlagMonotone ==
  [][/\ \A i \in DOMAIN users :
          /\ i \in DOMAIN users'
          /\ users[i].confirmed => users'[i].confirmed
          /\ (~users[i].confirmed /\ users'[i].confirmed)
               => \E p \in Procs :
                    /\ ConfirmSet(p)
                    /\ resp'.op = "confirmed_email"
                    /\ resp'.status = 200
                    /\ resp'.in.token.fmt = "jwt"
                    /\ resp'.in.token.key = JWT_SECRET
                    /\ resp'.in.token.alg = "HS256"
                    /\ HasSubject(resp'.in.token)
                    /\ resp'.in.token.payload.sub = users[i].email
                    /\ \A j \in DOMAIN users :
                         users[j].email # users[i].email
                         => users'[j].confirmed = users[j].confirmed
     /\ \A i \in DOMAIN users' \ DOMAIN users :
          users'[i].confirmed = FALSE
     /\ \A p \in Procs, token \in Presentable :
          (ConfirmDecode(p, token) /\ inflight'[p].pc = "lookup")
          => /\ SignedAndFresh(token)
             /\ inflight'[p].in.token = token
     /\ \A p \in Procs :
          (inflight[p].pc \in {"lookup", "update"}
             /\ inflight'[p].pc \in {"lookup", "update"})
          => inflight'[p].in = inflight[p].in]_vars

(* One of two stored users was confirmed, the other was not. *)
C26_Witness ==
  /\ resp.op = "confirmed_email"
  /\ resp.status = 200
  /\ Len(users) = 2
  /\ \E i, j \in DOMAIN users :
       /\ users[i].confirmed
       /\ users[i].email = resp.in.token.payload.sub
       /\ ~users[j].confirmed

(* ==================== properties of the token service ================= *)
(* C9: a token is accepted up to its expiry and refused after it, at the  *)
(* moment the handler decodes it: an access token issued for a username   *)
(* with a lifetime ttl > 0 decodes to that subject while now <= issue     *)
(* time + ttl and is refused with 401 afterwards; an email token decodes  *)
(* to its address for 7 days from its issue and is refused with 422       *)
(* afterwards, whatever the access-token lifetime of the settings.        *)
C9_AcceptedUntilExpiryThenRejected ==
  [][/\ \A p \in Procs :
          (/\ held # None
           /\ held.src = "direct"
           /\ held.delta # NoDelta
           /\ HasSubject(held.tok)
           /\ AuthenticateDecode(p, held.tok, "me"))
          => (held.delta[1] > 0
               => IF now <= held.at + held.delta[1]
                    THEN /\ WaitsAt(p, "get_user")
                         /\ inflight'[p].username = held.tok.payload.sub
                    ELSE /\ Answered(p)
                         /\ resp'.status = 401
                         /\ resp'.out = None)
     /\ \A p \in Procs :
          (/\ held # None
           /\ held.src = "direct-email"
           /\ HasSubject(held.tok)
           /\ ConfirmDecode(p, held.tok))
          => IF now <= held.at + 7 * 86400
               THEN /\ WaitsAt(p, "lookup")
                    /\ inflight'[p].email = held.tok.payload.sub
               ELSE /\ Answered(p)
                    /\ resp'.status = 422]_vars

(* An access token issued for one second was refused once it had expired. *)
C9_Witness ==
  /\ resp.op = "get_current_user"
  /\ held # None
  /\ held.src = "direct"
  /\ resp.in.token = held.tok
  /\ held.delta = <<1>>
  /\ HasSubject(held.tok)
  /\ Named(held.tok.payload.sub) # {}
  /\ now > held.at + 1
  /\ resp.status = 401

(* C10: create_access_token sets the expiry to issue time + the lifetime  *)
(* the caller passes, 0 included, and to issue time + 3600 only when the  *)
(* caller passes none.                                                    *)
C10_ExpiryIsIssuePlusTtl ==
  resp.op = "create_access_token"
  => resp.out.payload.exp =
       now + (IF resp.in.expires_delta = NoDelta
                THEN 3600 ELSE resp.in.expires_delta[1])

(* C11: issue then resolve is the identity on the subject: the access     *)
(* token issued for a username, resolved at any time up to its expiry,    *)
(* yields exactly that username, and so the user of that name (or a       *)
(* refusal when no such user is stored); the email token issued for an    *)
(* address resolves to exactly that address.                              *)
C11_IssueThenResolveRoundTrips ==
  [][/\ \A data \in ClaimSets, delta \in Deltas :
          (/\ resp'.op = "create_access_token"
           /\ IssueAccessToken(data, delta)
           /\ data # <<>>
           /\ data.sub # Null)
          => \A t \in {now, resp'.out.payload.exp} :
               LET r == get_current_user(resp'.out, users, t) IN
               /\ get_current_user_decode(resp'.out, t) =
                    [ok |-> TRUE, username |-> data.sub, raised |-> None]
               /\ IF Named(data.sub) # {}
                    THEN r.status = 200 /\ r.out.username = data.sub
                    ELSE r.status = 401
     /\ \A data \in ClaimSets, d \in 0..MaxDrift :
          (/\ resp'.op = "create_email_token"
           /\ IssueEmailToken(data, d)
           /\ data # <<>>
           /\ data.sub # Null)
          => \A t \in {now, now', resp'.out.payload.exp} :
               get_email_from_token(resp'.out, t) =
                 [ok |-> TRUE, email |-> data.sub, raised |-> None]]_vars

(* A token issued directly for a stored username was resolved, later than *)
(* its issue, to the user of that name.                                   *)
C11_Witness ==
  /\ resp.op = "get_current_user"
  /\ resp.status = 200
  /\ held # None
  /\ held.src = "direct"
  /\ resp.in.token = held.tok
  /\ now > held.at
  /\ resp.out.username = held.tok.payload.sub

(* A token the service did not sign: another key, or another algorithm. *)
Forged(token) ==
  /\ token.fmt = "jwt"
  /\ token.key # JWT_SECRET \/ token.alg # "HS256"

(* C12: a token signed with another secret, or under another algorithm,   *)
(* is refused on both paths whatever it claims: 401 by get_current_user,  *)
(* 422 by confirmed_email, which then changes no user.                    *)
C12_ForgedTokenRejected ==
  [][/\ \A p \in Procs, token \in TokenPresentable :
          (/\ AuthenticateDecode(p, token, "me")
           /\ Forged(token))
          => /\ Answered(p)
             /\ resp'.op = "get_current_user"
             /\ resp'.status = 401
             /\ resp'.detail = "Could not validate credentials"
             /\ resp'.out = None
     /\ \A p \in Procs, token \in TokenPresentable :
          (/\ ConfirmDecode(p, token)
           /\ Forged(token))
          => /\ Answered(p)
             /\ resp'.op = "confirmed_email"
             /\ resp'.status = 422
             /\ resp'.detail = "Invalid email verification token"
             /\ users' = users]_vars

(* An email token for a stored, unconfirmed address, its header naming    *)
(* another algorithm, was refused.                                        *)
C12_Witness ==
  /\ resp.op = "confirmed_email"
  /\ resp.status = 422
  /\ resp.in.token.fmt = "jwt"
  /\ resp.in.token.key = JWT_SECRET
  /\ resp.in.token.alg # "HS256"
  /\ HasSubject(resp.in.token)
  /\ \E user \in WithEmail(resp.in.token.payload.sub) : ~user.confirmed

(* C13: a register is answered 409 when the store, asked for its email,   *)
(* has a user with it, and when the store, asked for its username, has a  *)
(* user with it; no user is added, none is changed, no mail is scheduled, *)
(* and the request is over, whatever other requests are being served.     *)
C13_DuplicateRegisterConflicts ==
  [][/\ \A p \in Procs, u \in Usernames, e \in Emails, pw \in Passwords :
          (/\ RegisterCheckEmail(p, u, e, pw)
           /\ WithEmail(e) # {})
          => /\ Answered(p)
             /\ resp'.op = "register"
             /\ resp'.status = 409
             /\ resp'.out = None
             /\ users' = users
             /\ tasks' = tasks
     /\ \A p \in Procs :
          (/\ RegisterCheckUsername(p)
           /\ Named(inflight[p].in.username) # {})
          => /\ Answered(p)
             /\ resp'.op = "register"
             /\ resp'.status = 409
             /\ resp'.out = None
             /\ users' = users
             /\ tasks' = tasks]_vars

(* The username was taken, the email was not. *)
C13_Witness ==
  /\ resp.op = "register"
  /\ resp.status = 409
  /\ Named(resp.in.username) # {}
  /\ WithEmail(resp.in.email) = {}

(* C14: the creation step of a register answers 201 or, when the store    *)
(* refuses the insert, leaves through an error with nothing stored and    *)
(* nothing scheduled; when it answers 201 it has appended exactly one     *)
(* user, unconfirmed, whose stored password is the hash of the submitted  *)
(* one, left the others as they were, and scheduled exactly one mail, to  *)
(* that user's address; at every moment a scheduled mail is addressed to  *)
(* a user already stored.                                                 *)
C14_RegisterPersistsThenSchedules ==
  /\ [](\A i \in DOMAIN tasks :
          \E user \in WithEmail(tasks[i].email) :
            user.username = tasks[i].username)
  /\ [][\A p \in Procs, s \in Salts :
          RegisterCreate(p, s)
          => LET u == inflight[p].in.username
                 e == inflight[p].in.email
                 pw == inflight[p].in.password
             IN  /\ Answered(p)
                 /\ resp'.op = "register"
                 /\ resp'.status \in {201, 500}
                 /\ resp'.status = 500
                      => /\ Duplicate(users, inflight[p].in)
                         /\ users' = users
                         /\ tasks' = tasks
                 /\ resp'.status = 201
                      => /\ Len(users') = Len(users) + 1
                         /\ SubSeq(users', 1, Len(users)) = users
                         /\ LET new_user == users'[Len(users')] IN
                            /\ new_user.username = u
                            /\ new_user.email = e
                            /\ new_user.confirmed = FALSE
                            /\ new_user.hashed_password.scheme = "bcrypt"
                            /\ new_user.hashed_password.digest =
                                 <<s, bcrypt_key(pw)>>
                            /\ resp'.out = new_user
                         /\ tasks' = Append(tasks, [email |-> e,
                                                    username |-> u])]_vars

(* The second user was registered: the mail for it is scheduled and it is *)
(* stored, unconfirmed.                                                   *)
C14_Witness ==
  /\ resp.op = "register"
  /\ resp.status = 201
  /\ Len(users) = 2
  /\ Len(tasks) = 1
  /\ tasks[1].email = resp.in.email
  /\ \E user \in WithEmail(resp.in.email) :
       user.username = resp.in.username /\ ~user.confirmed

(* C15: the password a confirmed user registered with is the only one     *)
(* that logs it in: once a login of the user has succeeded with p, a      *)
(* login of the same user with any other password q is answered 401       *)
(* "incorrect login or password", whatever happened in between.           *)
C15_OnlyRegisteredPasswordLogsIn ==
  (resp.op = "login" /\ resp.status = 200)
  => \A q \in Passwords \ {resp.in.password} :
       LET r == login_user_begin(resp.in.username, q, users, now).resp IN
       /\ r.status = 401
       /\ r.detail = "Incorrect login or password"

(* C16: request_email answers 200 with the same neutral acknowledgement   *)
(* for an address no user has as for the address of an unconfirmed user,  *)
(* and never ends in an error.                                            *)
C16_ResendIsNeutral ==
  resp.op = "request_email"
  => /\ resp.status = 200
     /\ (\A user \in WithEmail(resp.in.email) : ~user.confirmed)
          => resp.out = [message |-> "Check your email for confirmation"]

(* C17: a token issued by login stays good until it expires: when         *)
(* get_current_user answers for it at any time up to the expiry the token *)
(* carries (3600 s after login built it), the answer is the user it was   *)
(* issued for, whatever logins, registrations, confirmations, resends     *)
(* and cache expiries came in between.                                    *)
C17_IssuedTokenStaysValid ==
  (/\ resp.op = "get_current_user"
   /\ held # None
   /\ held.src = "login"
   /\ resp.in.token = held.tok
   /\ now <= held.tok.payload.exp)
  => /\ resp.status = 200
     /\ resp.out.username = held.tok.payload.sub
     /\ resp.out.confirmed

(* In its last second, beside another user and with the cache entry of   *)
(* the login gone, the token was still accepted.                          *)
C17_Witness ==
  /\ resp.op = "get_current_user"
  /\ resp.status = 200
  /\ held # None
  /\ held.src = "login"
  /\ resp.in.token = held.tok
  /\ now = held.tok.payload.exp
  /\ Len(users) = 2
  /\ cache = <<>>

(* C18: get_current_user only resolves: neither its decoding nor its      *)
(* lookup, whether they end with a user or with a refusal, changes the    *)
(* user store, the session cache or the scheduled mails.                  *)
C18_AuthenticateChangesNothing ==
  [][/\ \A p \in Procs, token \in Presentable, route \in Routes :
          AuthenticateDecode(p, token, route)
          => /\ users' = users
             /\ cache' = cache
             /\ tasks' = tasks
     /\ \A p \in Procs :
          AuthenticateLookup(p)
          => /\ users' = users
             /\ cache' = cache
             /\ tasks' = tasks]_vars

(* A refusal, with a user stored, a session cached and a mail scheduled. *)
C18_Witness ==
  /\ resp.op = "get_current_user"
  /\ resp.status = 401
  /\ users # <<>>
  /\ cache # <<>>
  /\ tasks # <<>>

(* C19: the session cache is written by the two cache calls of a login    *)
(* that passed its checks only, under the key of the user that logged in, *)
(* and loses entries only to the clock; no operation reads it: what login *)
(* and get_current_user answer is what the store alone decides, so a user *)
(* whose entry is absent or expired is still found.                       *)
C19_CacheWrittenByLoginReadByNone ==
  [][/\ \A k \in DOMAIN cache' :
          (k \notin DOMAIN cache \/ cache'[k] # cache[k])
          => \E p \in Procs :
               /\ inflight[p].pc \in {"set", "expire"}
               /\ LoginSet(p) \/ LoginExpire(p)
               /\ k = "user:" \o inflight[p].in.username
               /\ Named(inflight[p].in.username) # {}
     /\ (DOMAIN cache \ DOMAIN cache' # {}) => now' > now
     /\ \A p \in Procs, u \in Usernames, pw \in Passwords :
          LoginBegin(p, u, pw)
          => (resp' # Idle
                <=> ~\E user \in Named(u) :
                       IsPasswordOf(pw, user) /\ user.confirmed)
     /\ \A p \in Procs :
          AuthenticateLookup(p)
          => (resp'.status = 401 <=> Named(inflight[p].username) = {})]_vars

(* A user whose cache entry has expired logged in again. *)
C19_Witness ==
  /\ resp.op = "login"
  /\ resp.status = 200
  /\ held # None
  /\ held.src = "login"
  /\ held.tok.payload.sub = resp.in.username
  /\ now = held.at + 3600
  /\ ("user:" \o resp.in.username) \in DOMAIN cache
  /\ cache["user:" \o resp.in.username].ttl = <<now + 3600>>

(* ======================= properties of concurrency ==================== *)
(* The logins of a username that are between their checks and their       *)
(* response.                                                              *)
LoginsOf(u) ==
  {p \in Procs : /\ inflight[p].pc \in {"set", "expire"}
                 /\ inflight[p].in.username = u}

C21_NoEntryWithoutTtlLeftBehind ==
  \A k \in DOMAIN cache :
    cache[k].ttl = <<>>
    => \E p \in Procs : inflight[p].pc = "expire" /\ inflight[p].key = k

(* C22: however concurrent registrations interleave, no two stored users  *)
(* have the same username and no two have the same email.                 *)
C22_NoDuplicateUsers ==
  \A i, j \in DOMAIN users :
    i # j => /\ users[i].username # users[j].username
             /\ users[i].email # users[j].email

(* C23: a confirmation is consumed once: a confirm answers "email         *)
(* confirmed" only when its update finds the user of its email still      *)
(* unconfirmed, so that of the concurrent confirms for one email at most  *)
(* one gets the acknowledgement.                                          *)
C23_ConfirmationConsumedOnce ==
  [][\A p \in Procs :
       (ConfirmSet(p) /\ resp'.status = 200)
       => \A user \in WithEmail(inflight[p].email) : ~user.confirmed]_vars

====
